---- MODULE Spec2Model ----
(***************************************************************************)
(* Credit-gated message dispatch workflow of the bomber web application    *)
(* (server bundle dist/index.js): the storage layer (users, messages,      *)
(* otps, protected_numbers), the gateway client and the HTTP route         *)
(* handlers, with the properties of the specification stated against them. *)
(***************************************************************************)
EXTENDS Integers, Sequences, FiniteSets, TLC

\* ------------------------------------------------------------------------
\* Bounds of the model
\* ------------------------------------------------------------------------
MaxUsers == 3
MaxMessages == 2
MaxOtps == 2
MaxCredits == 7
MaxDebt == 1
MaxSent == 2
MaxRepeat == 6
MaxTime == 30
TickStep == 15
MaxInflight == 2
MaxHistory == 4
MaxRequests == 2

\* ------------------------------------------------------------------------
\* Program constants
\* ------------------------------------------------------------------------
InitialCredits == 5
OtpTtlMinutes == 15

AdminName == "vbs"
AdminPhone == "1234567890"
OtherPhone == "5551234567"
Phones == {AdminPhone, OtherPhone}
Usernames == {"bob", "VBS"}
Codes == {"111111", "222222"}
GwOutcomes == {"ok", "fail", "throw"}
NoSession == 0

VARIABLES
    users,              \* users table: sequence of rows, id = index
    messages,           \* messages table: sequence of rows, id = index
    otps,               \* otps table in creation order
    protectedNumbers,   \* protected_numbers table: set of rows, phone unique
    sessions,           \* ids of the users that hold a login session
    now,                \* wall clock, in minutes
    tlsEnv,             \* process.env.NODE_TLS_REJECT_UNAUTHORIZED
    inflight,           \* requests suspended at an await, by slot
    last,               \* outcome of the request that completed last
    ledger              \* history: the ledger operations the audit recorded

vars == <<users, messages, otps, protectedNumbers, sessions, now, tlsEnv,
          inflight, last, ledger>>

Max(a, b) == IF a >= b THEN a ELSE b

\* ------------------------------------------------------------------------
\* Storage layer (class DatabaseStorage)
\* ------------------------------------------------------------------------
\* String.prototype.toLowerCase / SQL LOWER on the names the model uses
toLowerCase(s) ==
    CASE s = "VBS" -> "vbs"
      [] s = "Bob" -> "bob"
      [] OTHER -> s

UserIds == DOMAIN users

getUser(us, id) == IF id \in DOMAIN us THEN id ELSE 0

\* getUserByUsername that compares the names as they are written
getUserByUsernameExact(us, username) ==
    LET hit == {i \in DOMAIN us : us[i].username = username}
    IN  IF hit = {} THEN 0 ELSE CHOOSE i \in hit : \A j \in hit : i <= j

getUserByUsername(us, username) ==
    LET hit == {i \in DOMAIN us : toLowerCase(us[i].username) = toLowerCase(username)}
    IN  IF hit = {} THEN 0 ELSE CHOOSE i \in hit : \A j \in hit : i <= j

getUserByPhone(us, phone) ==
    LET hit == {i \in DOMAIN us : us[i].phone = phone}
    IN  IF hit = {} THEN 0 ELSE CHOOSE i \in hit : \A j \in hit : i <= j

createUser(us, insertUser) ==
    Append(us, [username |-> insertUser.username,
                phone |-> insertUser.phone,
                isAdmin |-> insertUser.isAdmin,
                messagesRemaining |-> InitialCredits,
                messagesSent |-> 0,
                isActive |-> TRUE])

\* the UPDATE of updateUserMessageCount that leaves messagesRemaining alone
updateUserMessageCountWriteNoDebit(us, id, row) ==
    [us EXCEPT ![id].messagesSent = row.messagesSent + 1]

\* the UPDATE of updateUserMessageCount without Math.max(0, ...)
updateUserMessageCountWriteNoFloor(us, id, row) ==
    [us EXCEPT ![id].messagesRemaining = row.messagesRemaining - 1,
               ![id].messagesSent = row.messagesSent + 1]

\* the UPDATE of updateUserMessageCount, computed from the row its SELECT read
updateUserMessageCountWrite(us, id, row) ==
    [us EXCEPT ![id].messagesRemaining = Max(0, row.messagesRemaining - 1),
               ![id].messagesSent = row.messagesSent + 1]

\* updateUserMessageCount that leaves messagesSent alone
updateUserMessageCountNoSent(us, id) ==
    IF id \in DOMAIN us
    THEN [us EXCEPT ![id].messagesRemaining = Max(0, @ - 1)]
    ELSE us

updateUserMessageCount(us, id) ==
    IF id \in DOMAIN us THEN updateUserMessageCountWrite(us, id, us[id]) ELSE us

\* addUserCredits that overwrites the balance instead of adding to it
addUserCreditsSet(us, id, credits) ==
    IF id \in DOMAIN us
    THEN [us EXCEPT ![id].messagesRemaining = credits]
    ELSE us

addUserCredits(us, id, credits) ==
    IF id \in DOMAIN us
    THEN [us EXCEPT ![id].messagesRemaining = @ + credits]
    ELSE us

\* removeUserCredits without the GREATEST(0, ...) floor
removeUserCreditsNoFloor(us, id, credits) ==
    IF id \in DOMAIN us
    THEN [us EXCEPT ![id].messagesRemaining = @ - credits]
    ELSE us

removeUserCredits(us, id, credits) ==
    IF id \in DOMAIN us
    THEN [us EXCEPT ![id].messagesRemaining = Max(0, @ - credits)]
    ELSE us

toggleUserActive(us, id, active) ==
    IF id \in DOMAIN us THEN [us EXCEPT ![id].isActive = active] ELSE us

\* createMessage that drops the type of the insert
createMessageNoType(ms, insertMessage) ==
    Append(ms, [userId |-> insertMessage.userId,
                phone |-> insertMessage.phone,
                type |-> "custom",
                status |-> "sent"])

\* columns the insert does not name take the table defaults; status is
\* written after the spread of insertMessage
createMessage(ms, insertMessage) ==
    Append(ms, [userId |-> insertMessage.userId,
                phone |-> insertMessage.phone,
                type |-> IF "type" \in DOMAIN insertMessage
                         THEN insertMessage.type ELSE "custom",
                status |-> "sent"])

updateMessageStatus(ms, id, status) ==
    IF id \in DOMAIN ms THEN [ms EXCEPT ![id].status = status] ELSE ms

createOtp(os, insertOtp) ==
    Append(os, [phone |-> insertOtp.phone, code |-> insertOtp.code,
                expiresAt |-> insertOtp.expiresAt, verified |-> FALSE])

\* getLatestOtp that orders the rows of the phone oldest first
getLatestOtpOldest(os, phone) ==
    LET hit == {i \in DOMAIN os : os[i].phone = phone}
    IN  IF hit = {} THEN 0 ELSE CHOOSE i \in hit : \A j \in hit : i <= j

\* getLatestOtp that prefers a verified row of the phone to the newest one
getLatestOtpVerifiedFirst(os, phone) ==
    LET hit == {i \in DOMAIN os : os[i].phone = phone}
        ver == {i \in hit : os[i].verified}
    IN  IF hit = {} THEN 0
        ELSE IF ver # {} THEN CHOOSE i \in ver : \A j \in ver : i >= j
        ELSE CHOOSE i \in hit : \A j \in hit : i >= j

\* index of the newest otp row of the phone, 0 when there is none
getLatestOtp(os, phone) ==
    LET hit == {i \in DOMAIN os : os[i].phone = phone}
    IN  IF hit = {} THEN 0 ELSE CHOOSE i \in hit : \A j \in hit : i >= j

verifyOtp(os, id) == [os EXCEPT ![id].verified = TRUE]

createProtectedNumber(pn, phone, userId) ==
    pn \cup {[phone |-> phone, userId |-> userId]}

\* a lookup that never finds the phone
isNumberProtectedNever(pn, phone) == FALSE

isNumberProtected(pn, phone) == \E r \in pn : r.phone = phone

\* deleteProtectedNumber without the WHERE clause
deleteProtectedNumberAll(pn, phone) == {}

deleteProtectedNumber(pn, phone) == {r \in pn : r.phone # phone}

\* ------------------------------------------------------------------------
\* Middleware
\* ------------------------------------------------------------------------
\* req.isAuthenticated(): the session deserializes to a user row
isAuthenticated(s) == s # NoSession /\ s \in sessions /\ s \in UserIds

\* isAdmin that lets every authenticated caller through
isAdminAnyUser(s) == isAuthenticated(s)

isAdmin(s) == isAuthenticated(s) /\ users[s].isAdmin

\* ------------------------------------------------------------------------
\* Gateway client: the value the call returns and the TLS switch it leaves
\* ------------------------------------------------------------------------
sendOtpMessage(gw) == gw = "ok"
sendCustomMessage(gw) == gw = "ok"
sendBomberMessage(gw) == gw = "ok"

\* the switch is set to "0" before the fetch; the assignment of "1" after it
\* is skipped when the fetch (or the parse of its body) throws
tlsAtReturn(gw, cur) == IF gw = "throw" THEN cur ELSE "1"

tlsAfterCall(gw) == tlsAtReturn(gw, "0")

\* what the model keeps of a completed request: the route, the HTTP status,
\* the caller, the number of gateway calls made, the number the response
\* body reports (as a set, empty when the body reports none) and the phone
\* of the request body ("" when the route takes none)
RespFull(op, status, uid, calls, body, phone) ==
    [op |-> op, status |-> status, uid |-> uid, calls |-> calls, body |-> body,
     phone |-> phone]

RespBody(op, status, uid, calls, body) == RespFull(op, status, uid, calls, body, "")

Resp(op, status, uid, calls) == RespBody(op, status, uid, calls, {})

RespPhone(op, status, uid, calls, phone) ==
    RespFull(op, status, uid, calls, {}, phone)

\* ------------------------------------------------------------------------
\* Initial state: the tables after initDatabase
\* ------------------------------------------------------------------------
Init ==
    /\ users = createUser(<<>>, [username |-> AdminName, phone |-> AdminPhone,
                                 isAdmin |-> TRUE])
    /\ messages = <<>>
    /\ otps = <<>>
    /\ protectedNumbers = {}
    /\ sessions = {}
    /\ now = 0
    /\ tlsEnv = "unset"
    /\ inflight = [r \in 1..MaxInflight |-> [pc |-> "idle"]]
    /\ last = Resp("init", 0, 0, 0)
    /\ ledger = <<>>

\* ------------------------------------------------------------------------
\* Registration and login
\* ------------------------------------------------------------------------
\* POST /api/register
Register(username, phone, code, gw) ==
    /\ UNCHANGED <<users, messages, protectedNumbers, sessions, now, inflight>>
    /\ IF getUserByUsername(users, username) # 0
       THEN /\ last' = RespPhone("register", 400, 0, 0, phone)
            /\ UNCHANGED <<otps, tlsEnv>>
       ELSE IF getUserByPhone(users, phone) # 0
       THEN /\ last' = RespPhone("register", 400, 0, 0, phone)
            /\ UNCHANGED <<otps, tlsEnv>>
       ELSE /\ Len(otps) < MaxOtps
            /\ otps' = createOtp(otps, [phone |-> phone, code |-> code,
                                        expiresAt |-> now + OtpTtlMinutes])
            /\ tlsEnv' = tlsAfterCall(gw)
            /\ last' = RespPhone("register", IF sendOtpMessage(gw) THEN 200 ELSE 500, 0, 1, phone)

\* verify-otp without the expiry check
otpExpiredNever(otp, t) == FALSE

\* the comparison new Date() > otpRecord.expiresAt
otpExpired(otp, t) == t > otp.expiresAt

\* verify-otp without the check of the verified flag
alreadyVerifiedNever(otp) == FALSE

\* the check otpRecord.verified of the verify-otp handler
alreadyVerified(otp) == otp.verified

\* POST /api/verify-otp
VerifyOtp(phone, code) ==
    LET id == getLatestOtp(otps, phone) IN
    /\ UNCHANGED <<users, messages, protectedNumbers, sessions, now, tlsEnv, inflight>>
    /\ IF id = 0 \/ alreadyVerified(otps[id]) \/ otpExpired(otps[id], now)
          \/ otps[id].code # code
       THEN /\ last' = RespPhone("verify-otp", 400, 0, 0, phone)
            /\ UNCHANGED otps
       ELSE /\ otps' = verifyOtp(otps, id)
            /\ last' = RespPhone("verify-otp", 200, 0, 0, phone)

\* the check of complete-registration, extended to refuse an expired otp
phoneNotVerifiedOrExpired(id) ==
    id = 0 \/ ~otps[id].verified \/ otpExpired(otps[id], now)

\* the check !otpRecord || !otpRecord.verified of complete-registration
phoneNotVerified(id) == id = 0 \/ ~otps[id].verified

\* POST /api/complete-registration; the insert violates the unique index on
\* users.username when the exact name is taken, and the handler answers 500
CompleteRegistration(username, phone, admin) ==
    LET id == getLatestOtp(otps, phone) IN
    /\ UNCHANGED <<messages, otps, protectedNumbers, now, tlsEnv, inflight>>
    /\ IF phoneNotVerified(id)
       THEN /\ last' = RespPhone("complete-registration", 400, 0, 0, phone)
            /\ UNCHANGED <<users, sessions>>
       ELSE IF \E i \in UserIds : users[i].username = username
       THEN /\ last' = RespPhone("complete-registration", 500, 0, 0, phone)
            /\ UNCHANGED <<users, sessions>>
       ELSE /\ Len(users) < MaxUsers
            /\ users' = createUser(users, [username |-> username, phone |-> phone,
                                           isAdmin |-> admin])
            /\ sessions' = sessions \cup {Len(users) + 1}
            /\ last' = RespPhone("complete-registration", 201, Len(users) + 1, 0, phone)

\* POST /api/login (LocalStrategy verify callback)
Login(username, passwordOk) ==
    LET id == getUserByUsername(users, username) IN
    /\ UNCHANGED <<users, messages, otps, protectedNumbers, now, tlsEnv, inflight>>
    /\ IF id = 0 \/ ~users[id].isActive \/ ~passwordOk
       THEN /\ last' = Resp("login", 401, 0, 0)
            /\ UNCHANGED sessions
       ELSE /\ sessions' = sessions \cup {id}
            /\ last' = Resp("login", 200, id, 0)

\* POST /api/logout
Logout(s) ==
    /\ s \in sessions
    /\ sessions' = sessions \ {s}
    /\ last' = Resp("logout", 200, s, 0)
    /\ UNCHANGED <<users, messages, otps, protectedNumbers, now, tlsEnv, inflight>>

\* passage of time
Tick ==
    /\ now + TickStep <= MaxTime
    /\ now' = now + TickStep
    /\ last' = Resp("tick", 0, 0, 0)
    /\ UNCHANGED <<users, messages, otps, protectedNumbers, sessions, tlsEnv, inflight>>

\* ------------------------------------------------------------------------
\* Sending
\* ------------------------------------------------------------------------
\* the check of the isActive flag that lets every account through
accountDisabledNever(user) == FALSE

\* the check !user.isActive of the sending handlers
accountDisabled(user) == ~user.isActive

\* POST /api/send-message
SendMessage(s, phone, gw) ==
    /\ UNCHANGED <<otps, protectedNumbers, sessions, now, inflight>>
    /\ IF ~isAuthenticated(s)
       THEN /\ last' = RespPhone("send-message", 401, 0, 0, phone)
            /\ UNCHANGED <<users, messages, tlsEnv>>
       ELSE IF accountDisabled(users[s]) \/ users[s].messagesRemaining <= 0
       THEN /\ last' = RespPhone("send-message", 403, s, 0, phone)
            /\ UNCHANGED <<users, messages, tlsEnv>>
       ELSE IF ~sendCustomMessage(gw)
       THEN /\ tlsEnv' = tlsAfterCall(gw)
            /\ last' = RespPhone("send-message", 500, s, 1, phone)
            /\ UNCHANGED <<users, messages>>
       ELSE /\ users[s].messagesSent < MaxSent
            /\ Len(messages) < MaxMessages
            /\ tlsEnv' = tlsAfterCall(gw)
            /\ users' = updateUserMessageCount(users, s)
            /\ messages' = createMessage(messages, [userId |-> s, phone |-> phone])
            /\ last' = RespFull("send-message", 200, s, 1,
                                {users[s].messagesRemaining - 1}, phone)

\* the comparison user.messagesRemaining < repeat, off by one
notEnoughCreditsOffByOne(user, repeat) == user.messagesRemaining + 1 < repeat

\* the comparison user.messagesRemaining < repeat of the bomber handler
notEnoughCredits(user, repeat) == user.messagesRemaining < repeat

\* POST /api/bomber
Bomber(s, phone, repeat, gw) ==
    /\ UNCHANGED <<otps, protectedNumbers, sessions, now, inflight>>
    /\ IF ~isAuthenticated(s)
       THEN /\ last' = RespPhone("bomber", 401, 0, 0, phone)
            /\ UNCHANGED <<users, messages, tlsEnv>>
       ELSE IF notEnoughCredits(users[s], repeat)
       THEN /\ last' = RespPhone("bomber", 400, s, 0, phone)
            /\ UNCHANGED <<users, messages, tlsEnv>>
       ELSE IF accountDisabled(users[s])
       THEN /\ last' = RespPhone("bomber", 403, s, 0, phone)
            /\ UNCHANGED <<users, messages, tlsEnv>>
       ELSE IF isNumberProtected(protectedNumbers, phone)
       THEN /\ last' = RespPhone("bomber", 403, s, 0, phone)
            /\ UNCHANGED <<users, messages, tlsEnv>>
       ELSE IF ~sendBomberMessage(gw)
       THEN /\ tlsEnv' = tlsAfterCall(gw)
            /\ last' = RespPhone("bomber", 500, s, 1, phone)
            /\ UNCHANGED <<users, messages>>
       ELSE /\ users[s].messagesSent < MaxSent
            /\ Len(messages) < MaxMessages
            /\ tlsEnv' = tlsAfterCall(gw)
            /\ users' = updateUserMessageCount(removeUserCredits(users, s, repeat), s)
            /\ messages' = createMessage(messages,
                               [userId |-> s, phone |-> phone,
                                status |-> "sent", type |-> "bomber"])
            /\ last' = RespFull("bomber", 200, s, 1,
                                {users[s].messagesRemaining - repeat}, phone)

\* number of calls of the repeat loop that reported success
successCount(gws) == Cardinality({i \in DOMAIN gws : sendCustomMessage(gws[i])})

\* the repeat loop that stops at the first call that reports a failure
RECURSIVE adminBomberLoopAbort(_, _, _, _)
adminBomberLoopAbort(i, repeat, gws, results) ==
    IF i < repeat /\ (results = <<>> \/ sendCustomMessage(results[Len(results)]))
    THEN adminBomberLoopAbort(i + 1, repeat, gws, Append(results, gws[i + 1]))
    ELSE results

\* for (let i = 0; i < repeat; i++): the results the loop has pushed when it
\* ends, gws[i + 1] being the outcome of the call of iteration i
RECURSIVE adminBomberLoop(_, _, _, _)
adminBomberLoop(i, repeat, gws, results) ==
    IF i < repeat
    THEN adminBomberLoop(i + 1, repeat, gws, Append(results, gws[i + 1]))
    ELSE results

\* POST /api/admin/bomber; gws are the outcomes of the gateway calls it makes,
\* one per iteration with a message, a single one without
AdminBomber(s, phone, repeat, withMessage, gws) ==
    LET results == adminBomberLoop(0, repeat, gws, <<>>) IN
    /\ Len(gws) = (IF withMessage THEN repeat ELSE 1)
    /\ UNCHANGED <<users, messages, otps, protectedNumbers, sessions, now, inflight>>
    /\ IF ~isAdmin(s)
       THEN /\ last' = RespPhone("admin-bomber", 403, 0, 0, phone)
            /\ UNCHANGED tlsEnv
       ELSE IF isNumberProtected(protectedNumbers, phone)
       THEN /\ last' = RespPhone("admin-bomber", 403, s, 0, phone)
            /\ UNCHANGED tlsEnv
       ELSE IF withMessage
       THEN /\ tlsEnv' = tlsAfterCall(results[Len(results)])
            /\ last' = RespFull("admin-bomber", 200, s, Len(results),
                                {successCount(results)}, phone)
       ELSE /\ tlsEnv' = tlsAfterCall(gws[1])
            /\ last' = RespPhone("admin-bomber",
                              IF sendBomberMessage(gws[1]) THEN 200 ELSE 500,
                              s, 1, phone)

\* POST /api/admin/custom-message
AdminCustomMessage(s, phone, gw) ==
    /\ UNCHANGED <<users, messages, otps, protectedNumbers, sessions, now, inflight>>
    /\ IF ~isAdmin(s)
       THEN /\ last' = RespPhone("admin-custom-message", 403, 0, 0, phone)
            /\ UNCHANGED tlsEnv
       ELSE /\ tlsEnv' = tlsAfterCall(gw)
            /\ last' = RespPhone("admin-custom-message",
                              IF sendCustomMessage(gw) THEN 200 ELSE 500, s, 1, phone)

\* ------------------------------------------------------------------------
\* Administration of the ledger
\* ------------------------------------------------------------------------
\* POST /api/admin/add-credits (updateUserCreditsSchema: credits >= 1)
AddCredits(s, username, credits) ==
    LET id == getUserByUsername(users, username) IN
    /\ credits >= 1
    /\ UNCHANGED <<messages, otps, protectedNumbers, sessions, now, tlsEnv, inflight>>
    /\ IF ~isAdmin(s)
       THEN /\ last' = Resp("add-credits", 403, 0, 0)
            /\ UNCHANGED users
       ELSE IF id = 0
       THEN /\ last' = Resp("add-credits", 404, s, 0)
            /\ UNCHANGED users
       ELSE /\ users[id].messagesRemaining + credits <= MaxCredits
            /\ users' = addUserCredits(users, id, credits)
            /\ last' = RespBody("add-credits", 200, s, 0,
                                {users[id].messagesRemaining + credits})

\* POST /api/admin/remove-credits (updateUserCreditsSchema: credits >= 1)
RemoveCredits(s, username, credits) ==
    LET id == getUserByUsername(users, username) IN
    /\ credits >= 1
    /\ UNCHANGED <<messages, otps, protectedNumbers, sessions, now, tlsEnv, inflight>>
    /\ IF ~isAdmin(s)
       THEN /\ last' = Resp("remove-credits", 403, 0, 0)
            /\ UNCHANGED users
       ELSE IF id = 0
       THEN /\ last' = Resp("remove-credits", 404, s, 0)
            /\ UNCHANGED users
       ELSE /\ users' = removeUserCredits(users, id, credits)
            /\ last' = RespBody("remove-credits", 200, s, 0,
                                {Max(0, users[id].messagesRemaining - credits)})

\* POST /api/admin/toggle-user
ToggleUser(s, username, active) ==
    LET id == getUserByUsername(users, username) IN
    /\ UNCHANGED <<messages, otps, protectedNumbers, sessions, now, tlsEnv, inflight>>
    /\ IF ~isAdmin(s)
       THEN /\ last' = Resp("toggle-user", 403, 0, 0)
            /\ UNCHANGED users
       ELSE IF id = 0
       THEN /\ last' = Resp("toggle-user", 404, s, 0)
            /\ UNCHANGED users
       ELSE /\ users' = toggleUserActive(users, id, active)
            /\ last' = Resp("toggle-user", 200, s, 0)

\* ------------------------------------------------------------------------
\* Credit requests
\* ------------------------------------------------------------------------
\* POST /api/request-credits
RequestCredits(s) ==
    /\ UNCHANGED <<users, otps, protectedNumbers, sessions, now, tlsEnv, inflight>>
    /\ IF ~isAuthenticated(s)
       THEN /\ last' = Resp("request-credits", 401, 0, 0)
            /\ UNCHANGED messages
       ELSE /\ Len(messages) < MaxMessages
            /\ messages' = createMessage(messages,
                               [userId |-> s, phone |-> "SYSTEM",
                                status |-> "pending", type |-> "credit_request"])
            /\ last' = Resp("request-credits", 200, s, 0)

\* POST /api/admin/approve-credit-request; the body is not validated
ApproveCreditRequest(s, messageId, userId, credits) ==
    /\ UNCHANGED <<otps, protectedNumbers, sessions, now, tlsEnv, inflight>>
    /\ IF ~isAdmin(s)
       THEN /\ last' = Resp("approve-credit-request", 403, 0, 0)
            /\ UNCHANGED <<users, messages>>
       ELSE /\ Len(messages) < MaxMessages
            /\ userId \in UserIds =>
                  /\ users[userId].messagesRemaining + credits <= MaxCredits
                  /\ users[userId].messagesRemaining + credits >= -MaxDebt
            /\ users' = addUserCredits(users, userId, credits)
            /\ messages' = createMessage(
                               updateMessageStatus(messages, messageId, "approved"),
                               [userId |-> userId, phone |-> "SYSTEM",
                                status |-> "sent", type |-> "system"])
            /\ last' = RespBody("approve-credit-request", 200, s, 0, {credits})

\* POST /api/admin/reject-credit-request
RejectCreditRequest(s, messageId) ==
    /\ UNCHANGED <<users, otps, protectedNumbers, sessions, now, tlsEnv, inflight>>
    /\ IF ~isAdmin(s)
       THEN /\ last' = Resp("reject-credit-request", 403, 0, 0)
            /\ UNCHANGED messages
       ELSE /\ messages' = updateMessageStatus(messages, messageId, "rejected")
            /\ last' = Resp("reject-credit-request", 200, s, 0)

\* ------------------------------------------------------------------------
\* Protected numbers
\* ------------------------------------------------------------------------
\* POST /api/admin/protect-number
AdminProtectNumber(s, phone) ==
    /\ UNCHANGED <<users, messages, otps, sessions, now, tlsEnv, inflight>>
    /\ IF ~isAdmin(s)
       THEN /\ last' = RespPhone("admin-protect-number", 403, 0, 0, phone)
            /\ UNCHANGED protectedNumbers
       ELSE IF isNumberProtected(protectedNumbers, phone)
       THEN /\ last' = RespPhone("admin-protect-number", 400, s, 0, phone)
            /\ UNCHANGED protectedNumbers
       ELSE /\ protectedNumbers' = createProtectedNumber(protectedNumbers, phone, 0)
            /\ last' = RespPhone("admin-protect-number", 200, s, 0, phone)

\* POST /api/admin/unprotect-number
AdminUnprotectNumber(s, phone) ==
    /\ UNCHANGED <<users, messages, otps, sessions, now, tlsEnv, inflight>>
    /\ IF ~isAdmin(s)
       THEN /\ last' = RespPhone("admin-unprotect-number", 403, 0, 0, phone)
            /\ UNCHANGED protectedNumbers
       ELSE IF ~isNumberProtected(protectedNumbers, phone)
       THEN /\ last' = RespPhone("admin-unprotect-number", 400, s, 0, phone)
            /\ UNCHANGED protectedNumbers
       ELSE /\ protectedNumbers' = deleteProtectedNumber(protectedNumbers, phone)
            /\ last' = RespPhone("admin-unprotect-number", 200, s, 0, phone)

\* POST /api/protect-my-number
ProtectMyNumber(s) ==
    /\ UNCHANGED <<users, messages, otps, sessions, now, tlsEnv, inflight>>
    /\ IF ~isAuthenticated(s)
       THEN /\ last' = Resp("protect-my-number", 401, 0, 0)
            /\ UNCHANGED protectedNumbers
       ELSE IF isNumberProtected(protectedNumbers, users[s].phone)
       THEN /\ last' = Resp("protect-my-number", 400, s, 0)
            /\ UNCHANGED protectedNumbers
       ELSE /\ protectedNumbers' =
                   createProtectedNumber(protectedNumbers, users[s].phone, s)
            /\ last' = Resp("protect-my-number", 200, s, 0)

\* POST /api/unprotect-my-number
UnprotectMyNumber(s) ==
    /\ UNCHANGED <<users, messages, otps, sessions, now, tlsEnv, inflight>>
    /\ IF ~isAuthenticated(s)
       THEN /\ last' = Resp("unprotect-my-number", 401, 0, 0)
            /\ UNCHANGED protectedNumbers
       ELSE IF ~isNumberProtected(protectedNumbers, users[s].phone)
       THEN /\ last' = Resp("unprotect-my-number", 400, s, 0)
            /\ UNCHANGED protectedNumbers
       ELSE /\ protectedNumbers' =
                   deleteProtectedNumber(protectedNumbers, users[s].phone)
            /\ last' = Resp("unprotect-my-number", 200, s, 0)

\* ------------------------------------------------------------------------
\* The sending handlers step by step: a handler runs from one await to the
\* next, and the steps of overlapping requests interleave
\* ------------------------------------------------------------------------
Idle == [pc |-> "idle"]

\* the columns of the users row that updateUserMessageCount reads
LedgerRow(u) == [messagesRemaining |-> u.messagesRemaining,
                 messagesSent |-> u.messagesSent]

NoRow == [messagesRemaining |-> 0, messagesSent |-> 0]

\* requests take the free slot of the lowest number
FreeSlot(r) == inflight[r] = Idle /\ \A q \in 1..(r - 1) : inflight[q] # Idle

Busy == {r \in DOMAIN inflight : inflight[r].pc # "idle"}

BusyOf(uid) == {r \in Busy : inflight[r].uid = uid}

\* room for the rows and counts the request will add
Room(s) ==
    /\ Len(messages) + Cardinality(Busy) < MaxMessages
    /\ users[s].messagesSent + Cardinality(BusyOf(s)) < MaxSent

\* POST /api/send-message up to the fetch: req.user is the row deserializeUser
\* read, and the checks are made on it
BeginSendMessage(r, s, phone) ==
    /\ FreeSlot(r)
    /\ isAuthenticated(s)
    /\ UNCHANGED <<users, messages, otps, protectedNumbers, sessions, now>>
    /\ IF accountDisabled(users[s]) \/ users[s].messagesRemaining <= 0
       THEN /\ last' = RespPhone("send-message", 403, s, 0, phone)
            /\ UNCHANGED <<tlsEnv, inflight>>
       ELSE /\ Room(s)
            /\ tlsEnv' = "0"
            /\ inflight' = [inflight EXCEPT ![r] =
                   [pc |-> "gateway", op |-> "send-message", uid |-> s,
                    row |-> NoRow, phone |-> phone, repeat |-> 1]]
            /\ UNCHANGED last

\* POST /api/bomber up to the await of isNumberProtected
BeginBomber(r, s, phone, repeat) ==
    /\ FreeSlot(r)
    /\ isAuthenticated(s)
    /\ UNCHANGED <<users, messages, otps, protectedNumbers, sessions, now, tlsEnv>>
    /\ IF notEnoughCredits(users[s], repeat)
       THEN /\ last' = RespPhone("bomber", 400, s, 0, phone)
            /\ UNCHANGED inflight
       ELSE IF accountDisabled(users[s])
       THEN /\ last' = RespPhone("bomber", 403, s, 0, phone)
            /\ UNCHANGED inflight
       ELSE /\ Room(s)
            /\ inflight' = [inflight EXCEPT ![r] =
                   [pc |-> "protected", op |-> "bomber", uid |-> s,
                    row |-> NoRow, phone |-> phone, repeat |-> repeat]]
            /\ UNCHANGED last

\* isNumberProtected answers; the fetch starts when the number is free
ProtectedRead(r) ==
    /\ inflight[r].pc = "protected"
    /\ UNCHANGED <<users, messages, otps, protectedNumbers, sessions, now>>
    /\ IF isNumberProtected(protectedNumbers, inflight[r].phone)
       THEN /\ last' = RespPhone("bomber", 403, inflight[r].uid, 0, inflight[r].phone)
            /\ inflight' = [inflight EXCEPT ![r] = Idle]
            /\ UNCHANGED tlsEnv
       ELSE /\ tlsEnv' = "0"
            /\ inflight' = [inflight EXCEPT ![r].pc = "gateway"]
            /\ UNCHANGED last

\* the gateway call of the request returns
GatewayReturn(r, gw) ==
    /\ inflight[r].pc = "gateway"
    /\ tlsEnv' = tlsAtReturn(gw, tlsEnv)
    /\ UNCHANGED <<users, messages, otps, protectedNumbers, sessions, now>>
    /\ IF gw # "ok"
       THEN /\ last' = RespPhone(inflight[r].op, 500, inflight[r].uid, 1, inflight[r].phone)
            /\ inflight' = [inflight EXCEPT ![r] = Idle]
       ELSE /\ inflight' = [inflight EXCEPT ![r].pc =
                   IF inflight[r].op = "bomber" THEN "remove" ELSE "debit-read"]
            /\ UNCHANGED last

\* storage.removeUserCredits(user.id, repeat) of the bomber handler
RemoveStep(r) ==
    /\ inflight[r].pc = "remove"
    /\ users' = removeUserCredits(users, inflight[r].uid, inflight[r].repeat)
    /\ inflight' = [inflight EXCEPT ![r].pc = "debit-read"]
    /\ UNCHANGED <<messages, otps, protectedNumbers, sessions, now, tlsEnv, last>>

\* the SELECT of updateUserMessageCount
DebitRead(r) ==
    /\ inflight[r].pc = "debit-read"
    /\ inflight' = [inflight EXCEPT ![r].pc = "debit-write",
                                    ![r].row = LedgerRow(users[inflight[r].uid])]
    /\ UNCHANGED <<users, messages, otps, protectedNumbers, sessions, now, tlsEnv, last>>

\* the UPDATE of updateUserMessageCount
DebitWrite(r) ==
    /\ inflight[r].pc = "debit-write"
    /\ users' = updateUserMessageCountWrite(users, inflight[r].uid, inflight[r].row)
    /\ inflight' = [inflight EXCEPT ![r].pc = "create"]
    /\ UNCHANGED <<messages, otps, protectedNumbers, sessions, now, tlsEnv, last>>

\* storage.createMessage and the response
CreateStep(r) ==
    /\ inflight[r].pc = "create"
    /\ messages' = createMessage(messages,
           IF inflight[r].op = "bomber"
           THEN [userId |-> inflight[r].uid, phone |-> inflight[r].phone,
                 status |-> "sent", type |-> "bomber"]
           ELSE [userId |-> inflight[r].uid, phone |-> inflight[r].phone])
    /\ last' = RespPhone(inflight[r].op, 200, inflight[r].uid, 1, inflight[r].phone)
    /\ inflight' = [inflight EXCEPT ![r] = Idle]
    /\ UNCHANGED <<users, otps, protectedNumbers, sessions, now, tlsEnv>>

\* POST /api/admin/bomber with a message, up to the first await of the loop:
\* the gate, the one test of isNumberProtected, and the first sendCustomMessage
BeginAdminBomber(r, s, phone, repeat) ==
    /\ FreeSlot(r)
    /\ UNCHANGED <<users, messages, otps, protectedNumbers, sessions, now>>
    /\ IF ~isAdmin(s)
       THEN /\ last' = RespPhone("admin-bomber", 403, 0, 0, phone)
            /\ UNCHANGED <<tlsEnv, inflight>>
       ELSE IF isNumberProtected(protectedNumbers, phone)
       THEN /\ last' = RespPhone("admin-bomber", 403, s, 0, phone)
            /\ UNCHANGED <<tlsEnv, inflight>>
       ELSE /\ tlsEnv' = "0"
            /\ inflight' = [inflight EXCEPT ![r] =
                   [pc |-> "loop", op |-> "admin-bomber", uid |-> s,
                    phone |-> phone, repeat |-> repeat, i |-> 0, success |-> 0]]
            /\ UNCHANGED last

\* an awaited sendCustomMessage of the loop returns: the next iteration calls
\* the gateway again, with no further test, or the loop ends and 200 is sent;
\* a call that throws ends the request in the error handler
AdminLoopReturn(r, gw) ==
    LET q == inflight[r]
        success == q.success + (IF sendCustomMessage(gw) THEN 1 ELSE 0) IN
    /\ q.pc = "loop"
    /\ UNCHANGED <<users, messages, otps, protectedNumbers, sessions, now>>
    /\ IF gw = "throw"
       THEN /\ tlsEnv' = tlsAtReturn(gw, tlsEnv)
            /\ last' = RespPhone("admin-bomber", 500, q.uid, q.i + 1, q.phone)
            /\ inflight' = [inflight EXCEPT ![r] = Idle]
       ELSE IF q.i + 1 < q.repeat
       THEN /\ tlsEnv' = "0"
            /\ inflight' = [inflight EXCEPT ![r].i = q.i + 1,
                                            ![r].success = success]
            /\ UNCHANGED last
       ELSE /\ tlsEnv' = tlsAtReturn(gw, tlsEnv)
            /\ last' = RespFull("admin-bomber", 200, q.uid, q.i + 1,
                                {success}, q.phone)
            /\ inflight' = [inflight EXCEPT ![r] = Idle]

\* ------------------------------------------------------------------------
\* Specifications
\* ------------------------------------------------------------------------
Callers == sessions \cup {NoSession}

\* callers without a session or with the session of an ordinary account
OrdinaryCallers == {c \in Callers : c = NoSession \/ ~users[c].isAdmin}

\* repeat counts of the bomber requests, and credits of the approvals
BomberRepeats == {1, 2, MaxRepeat}
AdminRepeats == 1..2
ApproveCredits == {-(InitialCredits + 1), 2}

\* outcomes of a gateway call that returns a response
GwReturns == {"ok", "fail"}

\* the registration of one ordinary account
RegisterBob ==
    \/ \E gw \in GwReturns : Register("bob", OtherPhone, "111111", gw)
    \/ VerifyOtp(OtherPhone, "111111")
    \/ CompleteRegistration("bob", OtherPhone, FALSE)

LoginAny == \E u \in {"bob", AdminName}, ok \in BOOLEAN : Login(u, ok)

\* single sends, one request at a time
Next ==
    \/ RegisterBob /\ UNCHANGED ledger
    \/ LoginAny /\ UNCHANGED ledger
    \/ \E s \in Callers, p \in Phones, gw \in GwOutcomes : SendMessage(s, p, gw)
          /\ UNCHANGED ledger
    \/ \E s \in Callers : RemoveCredits(s, "bob", 4) /\ UNCHANGED ledger
    \/ \E s \in Callers : AddCredits(s, "bob", 1) /\ UNCHANGED ledger
    \/ \E s \in Callers, a \in BOOLEAN : ToggleUser(s, "bob", a) /\ UNCHANGED ledger

Spec == Init /\ [][Next]_vars

\* credit requests and their approval, one request at a time
NextCredit ==
    \/ RegisterBob /\ UNCHANGED ledger
    \/ \E ok \in BOOLEAN : Login(AdminName, ok) /\ UNCHANGED ledger
    \/ \E s \in sessions : SendMessage(s, OtherPhone, "ok") /\ UNCHANGED ledger
    \/ \E s \in Callers : RequestCredits(s) /\ UNCHANGED ledger
    \/ \E s \in Callers, m \in 1..MaxMessages, u \in 1..2, c \in ApproveCredits :
          ApproveCreditRequest(s, m, u, c)
          /\ UNCHANGED ledger
    \/ \E s \in Callers, m \in 1..MaxMessages : RejectCreditRequest(s, m)
          /\ UNCHANGED ledger

SpecCredit == Init /\ [][NextCredit]_vars

\* bomber sends and the protected numbers, one request at a time
NextBomber ==
    \/ RegisterBob /\ UNCHANGED ledger
    \/ \E ok \in BOOLEAN : Login(AdminName, ok) /\ UNCHANGED ledger
    \/ \E s \in OrdinaryCallers, p \in Phones, n \in BomberRepeats,
          gw \in GwOutcomes : Bomber(s, p, n, gw)
          /\ UNCHANGED ledger
    \/ \E s \in Callers, p \in Phones, n \in AdminRepeats, m \in BOOLEAN :
          \E gws \in [1..(IF m THEN n ELSE 1) -> GwReturns] :
             AdminBomber(s, p, n, m, gws)
          /\ UNCHANGED ledger
    \/ \E s \in Callers, p \in Phones : AdminProtectNumber(s, p) /\ UNCHANGED ledger
    \/ \E s \in Callers, p \in Phones : AdminUnprotectNumber(s, p) /\ UNCHANGED ledger
    \/ \E s \in Callers : ProtectMyNumber(s) /\ UNCHANGED ledger
    \/ \E s \in Callers : UnprotectMyNumber(s) /\ UNCHANGED ledger
    \/ \E s \in Callers, a \in BOOLEAN : ToggleUser(s, "bob", a) /\ UNCHANGED ledger

SpecBomber == Init /\ [][NextBomber]_vars

\* registration with every request body, and the clock
NextOtp ==
    \/ \E u \in Usernames, p \in Phones, c \in Codes, gw \in GwOutcomes :
          Register(u, p, c, gw)
          /\ UNCHANGED ledger
    \/ \E p \in Phones, c \in Codes : VerifyOtp(p, c) /\ UNCHANGED ledger
    \/ \E u \in Usernames, p \in Phones, a \in BOOLEAN : CompleteRegistration(u, p, a)
          /\ UNCHANGED ledger
    \/ Tick /\ UNCHANGED ledger

SpecOtp == Init /\ [][NextOtp]_vars

\* repeat counts of the admin bomber requests that carry a message
LoopRepeats == 1..3

\* the admin bomber with every outcome of every call of its loop
NextLoop ==
    \/ \E ok \in BOOLEAN : Login(AdminName, ok) /\ UNCHANGED ledger
    \/ \E s \in Callers, p \in Phones, n \in LoopRepeats, m \in BOOLEAN :
          \E gws \in [1..(IF m THEN n ELSE 1) -> GwOutcomes] :
             AdminBomber(s, p, n, m, gws)
          /\ UNCHANGED ledger
    \/ \E s \in Callers, p \in Phones, gw \in GwOutcomes : AdminCustomMessage(s, p, gw)
          /\ UNCHANGED ledger
    \/ \E s \in Callers, p \in Phones : AdminProtectNumber(s, p) /\ UNCHANGED ledger
    \/ \E s \in Callers, p \in Phones : AdminUnprotectNumber(s, p) /\ UNCHANGED ledger

SpecLoop == Init /\ [][NextLoop]_vars

\* the routes under /api/admin, for callers of every kind
NextAdmin ==
    \/ RegisterBob /\ UNCHANGED ledger
    \/ \E u \in {"bob", AdminName} : Login(u, TRUE) /\ UNCHANGED ledger
    \/ \E s \in Callers : AdminCustomMessage(s, OtherPhone, "ok") /\ UNCHANGED ledger
    \/ \E s \in Callers, m \in BOOLEAN, gw \in GwReturns :
          AdminBomber(s, OtherPhone, 1, m, <<gw>>)
          /\ UNCHANGED ledger
    \/ \E s \in Callers : AddCredits(s, "bob", 1) /\ UNCHANGED ledger
    \/ \E s \in Callers : RemoveCredits(s, "bob", 4) /\ UNCHANGED ledger
    \/ \E s \in Callers : ToggleUser(s, "bob", FALSE) /\ UNCHANGED ledger
    \/ \E s \in Callers : ApproveCreditRequest(s, 1, 2, 2) /\ UNCHANGED ledger
    \/ \E s \in Callers : RejectCreditRequest(s, 1) /\ UNCHANGED ledger
    \/ \E s \in Callers : AdminProtectNumber(s, OtherPhone) /\ UNCHANGED ledger
    \/ \E s \in Callers : AdminUnprotectNumber(s, OtherPhone) /\ UNCHANGED ledger

SpecAdmin == Init /\ [][NextAdmin]_vars

\* accounts that an admin switches off and on, their logins and their requests
NextActive ==
    \/ RegisterBob /\ UNCHANGED ledger
    \/ LoginAny /\ UNCHANGED ledger
    \/ \E s \in Callers, u \in {"bob", AdminName}, a \in BOOLEAN : ToggleUser(s, u, a)
          /\ UNCHANGED ledger
    \/ \E s \in Callers, gw \in GwReturns : SendMessage(s, OtherPhone, gw)
          /\ UNCHANGED ledger
    \/ \E s \in Callers, n \in {1, MaxRepeat}, gw \in GwReturns :
          Bomber(s, OtherPhone, n, gw)
          /\ UNCHANGED ledger
    \/ \E s \in Callers : AddCredits(s, "bob", 1) /\ UNCHANGED ledger

SpecActive == Init /\ [][NextActive]_vars

\* an entry of the history: the storage call that wrote the balance of a user
LedgerOp(id, kind, credits) == [id |-> id, kind |-> kind, credits |-> credits]

\* the ledger operations on one account, one request at a time, each
\* successful storage call recorded in the history in the order of the calls
NextAudit ==
    \/ Login(AdminName, TRUE) /\ UNCHANGED ledger
    \/ \E s \in sessions, gw \in GwReturns :
          /\ Len(ledger) < MaxHistory
          /\ SendMessage(s, OtherPhone, gw)
          /\ ledger' = IF last'.status = 200
                       THEN Append(ledger, LedgerOp(s, "debit", 1))
                       ELSE ledger
    \/ \E s \in sessions, n \in 1..2 :
          /\ Len(ledger) + 1 < MaxHistory
          /\ Bomber(s, OtherPhone, n, "ok")
          /\ ledger' = IF last'.status = 200
                       THEN ledger \o <<LedgerOp(s, "remove", n), LedgerOp(s, "debit", 1)>>
                       ELSE ledger
    \/ \E s \in sessions, c \in 1..2 :
          /\ Len(ledger) < MaxHistory
          /\ AddCredits(s, AdminName, c)
          /\ ledger' = IF last'.status = 200
                       THEN Append(ledger,
                                LedgerOp(getUserByUsername(users, AdminName), "add", c))
                       ELSE ledger
    \/ \E s \in sessions, c \in {1, MaxRepeat} :
          /\ Len(ledger) < MaxHistory
          /\ RemoveCredits(s, AdminName, c)
          /\ ledger' = IF last'.status = 200
                       THEN Append(ledger,
                                LedgerOp(getUserByUsername(users, AdminName), "remove", c))
                       ELSE ledger
    \/ \E s \in sessions, u \in UserIds :
          /\ Len(ledger) < MaxHistory
          /\ ApproveCreditRequest(s, 1, u, 2)
          /\ ledger' = IF last'.status = 200
                       THEN Append(ledger, LedgerOp(u, "add", 2))
                       ELSE ledger

SpecAudit == Init /\ [][NextAudit]_vars

\* the ledger under overlapping requests
NextLedger ==
    \/ \E ok \in BOOLEAN : Login(AdminName, ok) /\ UNCHANGED ledger
    \/ \E r \in 1..MaxInflight, s \in sessions, p \in {OtherPhone} :
          BeginSendMessage(r, s, p)
          /\ UNCHANGED ledger
    \/ \E r \in 1..MaxInflight, s \in sessions, p \in {OtherPhone},
          n \in {2, MaxRepeat} : BeginBomber(r, s, p, n)
          /\ UNCHANGED ledger
    \/ \E r \in 1..MaxInflight : ProtectedRead(r) /\ UNCHANGED ledger
    \/ \E r \in 1..MaxInflight, gw \in GwOutcomes : GatewayReturn(r, gw)
          /\ UNCHANGED ledger
    \/ \E r \in 1..MaxInflight : RemoveStep(r) /\ UNCHANGED ledger
    \/ \E r \in 1..MaxInflight : DebitRead(r) /\ UNCHANGED ledger
    \/ \E r \in 1..MaxInflight : DebitWrite(r) /\ UNCHANGED ledger
    \/ \E r \in 1..MaxInflight : CreateStep(r) /\ UNCHANGED ledger
    \/ \E s \in Callers, c \in {1, MaxRepeat} : RemoveCredits(s, AdminName, c)
          /\ UNCHANGED ledger

SpecLedger == Init /\ [][NextLedger]_vars

\* single sends of one account that overlap, with the history of the requests:
\* "begin" when a request has passed its checks, "sent" when its gateway call
\* has succeeded, "end" when it is answered, "remove" for credits taken away
\* before the first request
NextRace ==
    \/ \E ok \in BOOLEAN : Login(AdminName, ok) /\ UNCHANGED ledger
    \/ \E s \in Callers :
          /\ ledger = <<>>
          /\ RemoveCredits(s, AdminName, InitialCredits - 1)
          /\ ledger' = IF last'.status = 200
                       THEN <<LedgerOp(s, "remove", InitialCredits - 1)>>
                       ELSE ledger
    \/ \E r \in 1..MaxInflight, s \in sessions :
          /\ Cardinality({k \in DOMAIN ledger : ledger[k].kind = "begin"})
                < MaxRequests
          /\ BeginSendMessage(r, s, OtherPhone)
          /\ ledger' = IF inflight'[r] # Idle
                       THEN Append(ledger, LedgerOp(s, "begin", 1))
                       ELSE ledger
    \/ \E r \in 1..MaxInflight, gw \in GwOutcomes :
          /\ GatewayReturn(r, gw)
          /\ ledger' = Append(ledger, LedgerOp(inflight[r].uid,
                                   IF gw = "ok" THEN "sent" ELSE "end", 1))
    \/ \E r \in 1..MaxInflight : DebitRead(r) /\ UNCHANGED ledger
    \/ \E r \in 1..MaxInflight : DebitWrite(r) /\ UNCHANGED ledger
    \/ \E r \in 1..MaxInflight :
          /\ CreateStep(r)
          /\ ledger' = Append(ledger, LedgerOp(inflight[r].uid, "end", 1))

SpecRace == Init /\ [][NextRace]_vars

\* bomber requests, of the admin and of the account itself, that overlap with
\* requests protecting and unprotecting the number
NextProtect ==
    \/ \E ok \in BOOLEAN : Login(AdminName, ok) /\ UNCHANGED ledger
    \/ \E r \in 1..MaxInflight, s \in Callers, n \in LoopRepeats :
          BeginAdminBomber(r, s, OtherPhone, n)
          /\ UNCHANGED ledger
    \/ \E r \in 1..MaxInflight, gw \in GwOutcomes : AdminLoopReturn(r, gw)
          /\ UNCHANGED ledger
    \/ \E r \in 1..MaxInflight, s \in sessions : BeginBomber(r, s, OtherPhone, 2)
          /\ UNCHANGED ledger
    \/ \E r \in 1..MaxInflight : ProtectedRead(r) /\ UNCHANGED ledger
    \/ \E r \in 1..MaxInflight, gw \in GwReturns : GatewayReturn(r, gw)
          /\ UNCHANGED ledger
    \/ \E r \in 1..MaxInflight : RemoveStep(r) /\ UNCHANGED ledger
    \/ \E r \in 1..MaxInflight : DebitRead(r) /\ UNCHANGED ledger
    \/ \E r \in 1..MaxInflight : DebitWrite(r) /\ UNCHANGED ledger
    \/ \E r \in 1..MaxInflight : CreateStep(r) /\ UNCHANGED ledger
    \/ \E s \in Callers : AdminProtectNumber(s, OtherPhone) /\ UNCHANGED ledger
    \/ \E s \in Callers : AdminUnprotectNumber(s, OtherPhone) /\ UNCHANGED ledger

SpecProtect == Init /\ [][NextProtect]_vars

\* ------------------------------------------------------------------------
\* Properties
\* ------------------------------------------------------------------------
\* C1: under every interleaving of single-send debits, bomber debits and
\* admin remove-credits calls, no user's messagesRemaining is negative
C1_NonNegativeBalance ==
    \A i \in DOMAIN users : users[i].messagesRemaining >= 0

\* a debit was written from a row that had no credit left
C1_Witness ==
    \E r \in DOMAIN inflight :
        /\ inflight[r].pc = "create"
        /\ inflight[r].row.messagesRemaining = 0
        /\ users[inflight[r].uid].messagesRemaining = 0

\* the row a successful single send adds
CustomRow(uid, phone) ==
    [userId |-> uid, phone |-> phone, type |-> "custom", status |-> "sent"]

\* C2: a send-message request of an active user with credit debits one
\* credit, counts one sent message and adds one custom/sent row of the user
\* exactly when the gateway call succeeds; a failed call changes nothing
C2_SingleSend ==
    [][last'.op = "send-message" =>
       LET s == last'.uid
           p == last'.phone
       IN  \A gw \in GwOutcomes :
              (/\ SendMessage(s, p, gw)
               /\ isAuthenticated(s)
               /\ users[s].isActive
               /\ users[s].messagesRemaining > 0)
              => IF gw = "ok"
                 THEN /\ last'.status = 200
                      /\ users' = [users EXCEPT
                            ![s].messagesRemaining = users[s].messagesRemaining - 1,
                            ![s].messagesSent = users[s].messagesSent + 1]
                      /\ messages' = Append(messages, CustomRow(s, p))
                 ELSE /\ last'.status = 500
                      /\ users' = users
                      /\ messages' = messages]_vars

\* a user who held one credit has sent a message and holds none
C2_Witness ==
    /\ last.op = "send-message"
    /\ last.status = 200
    /\ last.body = {0}
    /\ users[last.uid].messagesRemaining = 0
    /\ messages # <<>>
    /\ messages[Len(messages)] = CustomRow(last.uid, last.phone)

\* the outcomes of the gateway calls an admin bomber request can see
AdminGws == UNION {[1..k -> GwReturns] : k \in AdminRepeats}

\* a request that is not served leaves the ledger, the messages and the
\* gateway alone
NotServed ==
    /\ last'.calls = 0
    /\ users' = users
    /\ messages' = messages
    /\ tlsEnv' = tlsEnv

\* the phone is the phone of a row of the protected_numbers table
InProtectedSet(phone) == phone \in {r.phone : r \in protectedNumbers}

\* C3 as stated: every bomber request of a logged-in caller on a protected
\* phone is answered 403 and not served
C3_Original ==
    [][/\ (last'.op = "bomber" /\ InProtectedSet(last'.phone))
          => \A n \in BomberRepeats, gw \in GwOutcomes :
                (Bomber(last'.uid, last'.phone, n, gw) /\ isAuthenticated(last'.uid))
                => (last'.status = 403 /\ NotServed)
       /\ (last'.op = "admin-bomber"
           /\ InProtectedSet(last'.phone))
          => (last'.status = 403 /\ NotServed)]_vars

\* C3 (amended): a bomber request on a protected phone is never served: no
\* gateway call, no credit consumed, no row added; the answer is 403, except
\* on the self-service route 401 without a session and 400 when the caller
\* holds fewer credits than repeat
C3_ProtectedNeverServed ==
    [][/\ (last'.op = "bomber" /\ InProtectedSet(last'.phone))
          => \A n \in BomberRepeats, gw \in GwOutcomes :
                Bomber(last'.uid, last'.phone, n, gw)
                => /\ NotServed
                   /\ last'.status =
                         IF ~isAuthenticated(last'.uid) THEN 401
                         ELSE IF users[last'.uid].messagesRemaining < n THEN 400
                         ELSE 403
       /\ (last'.op = "admin-bomber"
           /\ InProtectedSet(last'.phone))
          => (last'.status = 403 /\ NotServed)]_vars

\* an active caller with credits was refused a bomber send: the phone was
\* protected
C3_Witness ==
    /\ last.op = "bomber"
    /\ last.status = 403
    /\ users[last.uid].isActive
    /\ users[last.uid].messagesRemaining >= 1
    /\ InProtectedSet(last.phone)

\* C4: a self-service bomber request with repeat above the caller's balance
\* is answered 400 and makes no gateway call and no change
C4_NotEnoughCredits ==
    [][last'.op = "bomber" =>
       \A n \in BomberRepeats, gw \in GwOutcomes :
          (/\ Bomber(last'.uid, last'.phone, n, gw)
           /\ isAuthenticated(last'.uid)
           /\ n > users[last'.uid].messagesRemaining)
          => (last'.status = 400 /\ NotServed)]_vars

\* a bomber request was refused for lack of credits
C4_Witness ==
    /\ last.op = "bomber"
    /\ last.status = 400
    /\ last.calls = 0

\* C5 as stated: a successful bomber send with repeat n leaves the stored
\* balance at the previous balance minus n, the value the response reports
C5_Original ==
    [][(last'.op = "bomber" /\ last'.status = 200) =>
       \A n \in BomberRepeats, gw \in GwOutcomes :
          Bomber(last'.uid, last'.phone, n, gw)
          => /\ users'[last'.uid].messagesRemaining =
                   users[last'.uid].messagesRemaining - n
             /\ last'.body = {users'[last'.uid].messagesRemaining}]_vars

\* the row a successful bomber send adds
BomberRow(uid, phone) ==
    [userId |-> uid, phone |-> phone, type |-> "bomber", status |-> "sent"]

\* C6: a successful bomber send counts one sent message whatever the repeat
\* and adds one bomber/sent row; a request whose gateway call fails leaves
\* balance, sent count and messages alone
C6_BomberSentOnce ==
    [][last'.op = "bomber" =>
       LET s == last'.uid
           p == last'.phone
       IN  \A n \in BomberRepeats, gw \in GwOutcomes :
              Bomber(s, p, n, gw)
              => /\ last'.status = 200
                    => /\ gw = "ok"
                       /\ users'[s].messagesSent = users[s].messagesSent + 1
                       /\ messages' = Append(messages, BomberRow(s, p))
                 /\ gw # "ok" => (users' = users /\ messages' = messages)
                 /\ last'.status = 500 <=> (last'.calls = 1 /\ gw # "ok")]_vars

\* a bomber send with repeat 2 succeeded from the initial balance
C6_Witness ==
    /\ last.op = "bomber"
    /\ last.status = 200
    /\ last.body = {InitialCredits - 2}
    /\ users[last.uid].messagesSent = 1
    /\ messages[Len(messages)] = BomberRow(last.uid, last.phone)

\* C7 as stated: request-credits adds one credit_request row of the caller
\* with status pending, and changes no balance
C7_Original ==
    [][(last'.op = "request-credits" /\ last'.status = 200) =>
       /\ messages' = Append(messages,
             [userId |-> last'.uid, phone |-> "SYSTEM",
              type |-> "credit_request", status |-> "pending"])
       /\ users' = users]_vars

\* C8 as stated: a status only ever changes from pending to approved or
\* rejected, and only on credit requests
C8_Original ==
    [][\A m \in DOMAIN messages :
          messages'[m].status # messages[m].status
          => /\ messages[m].type = "credit_request"
             /\ messages[m].status = "pending"
             /\ messages'[m].status \in {"approved", "rejected"}]_vars

\* C9: an approval adds exactly credits to the balance of the user it names,
\* marks the request approved and appends one system row for that user; a
\* rejection marks the request rejected and changes no balance and adds no row
C9_ApproveReject ==
    [][/\ (last'.op = "approve-credit-request" /\ last'.status = 200)
          => \A m \in 1..MaxMessages, u \in 1..2, c \in ApproveCredits :
                ApproveCreditRequest(last'.uid, m, u, c)
                => /\ \A i \in DOMAIN users :
                         /\ users'[i].messagesRemaining =
                               users[i].messagesRemaining + (IF i = u THEN c ELSE 0)
                         /\ users'[i].messagesSent = users[i].messagesSent
                   /\ Len(messages') = Len(messages) + 1
                   /\ messages'[Len(messages')] =
                         [userId |-> u, phone |-> "SYSTEM",
                          type |-> "system", status |-> "sent"]
                   /\ \A k \in DOMAIN messages :
                         messages'[k] =
                            IF k = m
                            THEN [messages[k] EXCEPT !.status = "approved"]
                            ELSE messages[k]
       /\ (last'.op = "reject-credit-request" /\ last'.status = 200)
          => \A m \in 1..MaxMessages :
                RejectCreditRequest(last'.uid, m)
                => /\ users' = users
                   /\ Len(messages') = Len(messages)
                   /\ \A k \in DOMAIN messages :
                         messages'[k] =
                            IF k = m
                            THEN [messages[k] EXCEPT !.status = "rejected"]
                            ELSE messages[k]]_vars

\* a credit request of the ordinary user was approved for 2 credits
C9_Witness ==
    /\ last.op = "approve-credit-request"
    /\ last.status = 200
    /\ last.body = {2}
    /\ \E m \in DOMAIN messages :
          /\ messages[m].type = "credit_request"
          /\ messages[m].status = "approved"
          /\ messages[m].userId = 2
    /\ Len(users) = 2
    /\ users[2].messagesRemaining = InitialCredits + 2
    /\ messages[Len(messages)].type = "system"

\* C10: verify-otp after the expiry of the newest otp of the phone answers
\* 400 for every code and verifies no row; the expiry is set 15 minutes
\* after the issue
C10_ExpiredOtpFails ==
    [][/\ (/\ last'.op = "verify-otp"
           /\ getLatestOtp(otps, last'.phone) # 0
           /\ now > otps[getLatestOtp(otps, last'.phone)].expiresAt)
          => (last'.status = 400 /\ otps' = otps)
       /\ Len(otps') > Len(otps)
          => otps'[Len(otps')].expiresAt = now + 15]_vars

\* a code was refused while the newest otp of its phone, never verified,
\* was past its expiry
C10_Witness ==
    /\ last.op = "verify-otp"
    /\ last.status = 400
    /\ getLatestOtp(otps, last.phone) # 0
    /\ ~otps[getLatestOtp(otps, last.phone)].verified
    /\ now > otps[getLatestOtp(otps, last.phone)].expiresAt

\* the otp rows issued for the phone, in the order of issue
IssuedFor(phone) == SelectSeq(otps, LAMBDA o : o.phone = phone)

\* an otp was issued for the phone and the one issued last is verified
LastIssuedVerified(phone) ==
    /\ IssuedFor(phone) # <<>>
    /\ IssuedFor(phone)[Len(IssuedFor(phone))].verified

\* C11: while the otp issued last for a phone is verified, verify-otp for
\* the phone answers 400 whatever the code and changes nothing
C11_VerifiedOtpRefused ==
    [][(last'.op = "verify-otp" /\ LastIssuedVerified(last'.phone))
       => /\ last'.status = 400
          /\ otps' = otps
          /\ users' = users
          /\ sessions' = sessions]_vars

\* a code was refused for a phone whose newest otp is verified and not yet
\* expired
C11_Witness ==
    /\ last.op = "verify-otp"
    /\ last.status = 400
    /\ LastIssuedVerified(last.phone)
    /\ now <= IssuedFor(last.phone)[Len(IssuedFor(last.phone))].expiresAt

\* C12: a user row is created only by complete-registration and only while
\* the otp issued last for its phone is verified; with no otp or an
\* unverified newest otp the request answers 400 and creates no user
C12_RegistrationOrder ==
    [][/\ users' # users
          => /\ last'.op = "complete-registration"
             /\ last'.status = 201
             /\ Len(users') = Len(users) + 1
             /\ users'[Len(users')].phone = last'.phone
             /\ LastIssuedVerified(last'.phone)
       /\ (last'.op = "complete-registration" /\ ~LastIssuedVerified(last'.phone))
          => /\ last'.status = 400
             /\ users' = users
             /\ sessions' = sessions]_vars

\* an account was created for a phone whose first otp was superseded by a
\* second one, verified in its turn
C12_Witness ==
    /\ last.op = "complete-registration"
    /\ last.status = 201
    /\ Len(IssuedFor(last.phone)) = 2
    /\ LastIssuedVerified(last.phone)
    /\ users[Len(users)].phone = last.phone

\* some user holds the name, letter case ignored
NameTaken(username) ==
    \E i \in DOMAIN users : toLowerCase(users[i].username) = toLowerCase(username)

\* some user holds the phone
PhoneTaken(phone) == \E i \in DOMAIN users : users[i].phone = phone

\* C13: register with a username some user holds (letter case ignored) or
\* a phone some user holds answers 400, creates no otp row and makes no
\* gateway call
C13_DuplicateRegisterRefused ==
    [][last'.op = "register" =>
       \A u \in Usernames, c \in Codes, gw \in GwOutcomes :
          (/\ Register(u, last'.phone, c, gw)
           /\ (NameTaken(u) \/ PhoneTaken(last'.phone)))
          => /\ last'.status = 400
             /\ last'.calls = 0
             /\ otps' = otps
             /\ tlsEnv' = tlsEnv]_vars

\* a registration for a free phone was refused: its username differs from
\* a user's only in letter case
C13_Witness ==
    /\ last.op = "register"
    /\ last.status = 400
    /\ last.calls = 0
    /\ ~PhoneTaken(last.phone)
    /\ \A i \in DOMAIN users : users[i].username # "VBS"

\* the caller holds the session of a user with the admin flag
AdminCaller(s) == s \in sessions /\ s \in DOMAIN users /\ users[s].isAdmin

\* C14: an admin bomber request with a message and repeat n on an
\* unprotected phone makes n gateway calls however many of them fail, answers
\* 200 and reports the number of calls that succeeded; it touches neither the
\* ledger nor the messages
C14_AdminBomberLoop ==
    [][last'.op = "admin-bomber" =>
       \A n \in LoopRepeats : \A gws \in [1..n -> GwOutcomes] :
          (/\ AdminBomber(last'.uid, last'.phone, n, TRUE, gws)
           /\ AdminCaller(last'.uid)
           /\ ~InProtectedSet(last'.phone))
          => /\ last'.status = 200
             /\ last'.calls = n
             /\ last'.body = {Cardinality({i \in 1..n : gws[i] = "ok"})}
             /\ users' = users
             /\ messages' = messages]_vars

\* three calls were made and none of them succeeded
C14_Witness ==
    /\ last.op = "admin-bomber"
    /\ last.status = 200
    /\ last.calls = 3
    /\ last.body = {0}

\* the phones of the protected_numbers table
ProtectedPhones == {r.phone : r \in protectedNumbers}

\* the request on the phone is refused 400 and the table is left alone
ProtectRefused == last'.status = 400 /\ protectedNumbers' = protectedNumbers

\* the request adds one row, of the phone, and keeps the others
ProtectAdds(phone) ==
    /\ last'.status = 200
    /\ protectedNumbers \subseteq protectedNumbers'
    /\ Cardinality(protectedNumbers') = Cardinality(protectedNumbers) + 1
    /\ \A r \in protectedNumbers' \ protectedNumbers : r.phone = phone

\* the request removes the row of the phone and keeps the others
ProtectRemoves(phone) ==
    /\ last'.status = 200
    /\ protectedNumbers' \subseteq protectedNumbers
    /\ Cardinality(protectedNumbers') = Cardinality(protectedNumbers) - 1
    /\ \A r \in protectedNumbers \ protectedNumbers' : r.phone = phone

\* C15: on the admin and on the self-service route, protect of a protected
\* phone and unprotect of an unprotected phone answer 400 and change nothing;
\* otherwise protect adds the row of that phone and unprotect removes it, the
\* other rows being kept, and no phone has two rows
C15_ProtectUnprotect ==
    [][/\ Cardinality(ProtectedPhones) = Cardinality(protectedNumbers)
       /\ (last'.op = "admin-protect-number" /\ last'.status # 403)
          => IF last'.phone \in ProtectedPhones
             THEN ProtectRefused ELSE ProtectAdds(last'.phone)
       /\ (last'.op = "admin-unprotect-number" /\ last'.status # 403)
          => IF last'.phone \notin ProtectedPhones
             THEN ProtectRefused ELSE ProtectRemoves(last'.phone)
       /\ (last'.op = "protect-my-number" /\ last'.status # 401)
          => IF users[last'.uid].phone \in ProtectedPhones
             THEN ProtectRefused ELSE ProtectAdds(users[last'.uid].phone)
       /\ (last'.op = "unprotect-my-number" /\ last'.status # 401)
          => IF users[last'.uid].phone \notin ProtectedPhones
             THEN ProtectRefused ELSE ProtectRemoves(users[last'.uid].phone)]_vars

\* a user lifted the protection of the own phone while another phone stays
\* protected
C15_Witness ==
    /\ last.op = "unprotect-my-number"
    /\ last.status = 200
    /\ users[last.uid].phone \notin ProtectedPhones
    /\ ProtectedPhones # {}

\* a request that the admin gate refuses: 403, no gateway call, no change
\* of users, messages or protected numbers
GateRefused ==
    /\ last'.status = 403
    /\ last'.calls = 0
    /\ users' = users
    /\ messages' = messages
    /\ protectedNumbers' = protectedNumbers
    /\ tlsEnv' = tlsEnv

\* C19: a request to a route under /api/admin from a caller without a
\* session, or with the session of a user who is not an admin, is answered
\* 403 with no gateway call and no change of users, messages or protected
\* numbers
C19_AdminGate ==
    [][\A s \in Callers : ~AdminCaller(s) =>
       /\ last'.op = "admin-custom-message"
          => (AdminCustomMessage(s, last'.phone, "ok") => GateRefused)
       /\ last'.op = "admin-bomber"
          => \A m \in BOOLEAN, gw \in GwReturns :
                AdminBomber(s, last'.phone, 1, m, <<gw>>) => GateRefused
       /\ last'.op = "add-credits" => (AddCredits(s, "bob", 1) => GateRefused)
       /\ last'.op = "remove-credits" => (RemoveCredits(s, "bob", 4) => GateRefused)
       /\ last'.op = "toggle-user" => (ToggleUser(s, "bob", FALSE) => GateRefused)
       /\ last'.op = "approve-credit-request"
          => (ApproveCreditRequest(s, 1, 2, 2) => GateRefused)
       /\ last'.op = "reject-credit-request"
          => (RejectCreditRequest(s, 1) => GateRefused)
       /\ last'.op = "admin-protect-number"
          => (AdminProtectNumber(s, last'.phone) => GateRefused)
       /\ last'.op = "admin-unprotect-number"
          => (AdminUnprotectNumber(s, last'.phone) => GateRefused)]_vars

\* add-credits was refused while the only session was that of the ordinary
\* user, who kept the initial balance
C19_Witness ==
    /\ last.op = "add-credits"
    /\ last.status = 403
    /\ sessions = {2}
    /\ ~users[2].isAdmin
    /\ users[2].messagesRemaining = InitialCredits

\* C18 as stated: no two user rows hold usernames that are equal when the
\* letter case is ignored
C18_Original ==
    \A i, j \in DOMAIN users :
        i # j => toLowerCase(users[i].username) # toLowerCase(users[j].username)

\* C20 as stated: while no gateway call is in flight the TLS switch is not
\* "0": every call that set it to "0" has set it back
C20_Original ==
    (\A r \in DOMAIN inflight : inflight[r].pc # "gateway") => tlsEnv # "0"

\* C17 as stated: no operation of the API, add-credits and
\* approve-credit-request with every body they accept included, leaves a
\* user with a negative messagesRemaining
C17_Original ==
    \A i \in UserIds : ~(users[i].messagesRemaining < 0)

\* a number floored at 0
Floor0(x) == IF x < 0 THEN 0 ELSE x

\* the credits of the operations of one kind that the history holds for a user
RECURSIVE SumOf(_, _, _)
SumOf(h, id, kind) ==
    IF h = <<>> THEN 0
    ELSE (IF Head(h).id = id /\ Head(h).kind = kind THEN Head(h).credits ELSE 0)
         + SumOf(Tail(h), id, kind)

\* 5 + adds - removes - debits, floored once
ClosedBalance(id) ==
    Floor0(InitialCredits + SumOf(ledger, id, "add")
           - SumOf(ledger, id, "remove") - SumOf(ledger, id, "debit"))

\* the balance r after the operations of the history on the user, applied in
\* order: an add gives r + c, a remove or a debit gives r - c floored at 0
RECURSIVE Replay(_, _, _)
Replay(h, id, r) ==
    IF h = <<>> THEN r
    ELSE Replay(Tail(h), id,
                IF Head(h).id # id THEN r
                ELSE IF Head(h).kind = "add" THEN r + Head(h).credits
                ELSE Floor0(r - Head(h).credits))

\* C16 as stated: after every sequential history messagesRemaining is
\* max(0, 5 + sum of adds - sum of removes - number of debits)
C16_Original ==
    \A i \in UserIds : users[i].messagesRemaining = ClosedBalance(i)

\* C16 (amended): after every sequential history messagesRemaining is the
\* result of applying the operations in order from 5, every remove and every
\* debit floored at 0 when it is applied
C16_FloorAtEveryStep ==
    \A i \in UserIds : users[i].messagesRemaining = Replay(ledger, i, InitialCredits)

\* credits were added after a removal had been floored: the balance is the
\* replayed one and lies above the closed formula
C16_Witness ==
    \E i \in UserIds :
        /\ SumOf(ledger, i, "add") > 0
        /\ users[i].messagesRemaining = Replay(ledger, i, InitialCredits)
        /\ users[i].messagesRemaining > ClosedBalance(i)
        /\ ledger[Len(ledger)].kind = "debit"

\* the otp issued last for the phone
LastIssued(phone) == IssuedFor(phone)[Len(IssuedFor(phone))]

\* C25: once a second otp was issued for a phone, verify-otp with a code
\* other than that of the newest otp answers 400 and verifies nothing, and
\* complete-registration answers 400 and creates no user while the newest
\* otp is unverified, whatever was verified before
C25_LatestOtpAuthoritative ==
    [][/\ (last'.op = "verify-otp" /\ Len(IssuedFor(last'.phone)) >= 2)
          => \A c \in Codes :
                (VerifyOtp(last'.phone, c) /\ c # LastIssued(last'.phone).code)
                => (last'.status = 400 /\ otps' = otps)
       /\ (/\ last'.op = "complete-registration"
           /\ Len(IssuedFor(last'.phone)) >= 2
           /\ ~LastIssued(last'.phone).verified)
          => (last'.status = 400 /\ users' = users)]_vars

\* complete-registration was refused for a phone whose first otp is
\* verified and whose second otp is not
C25_Witness ==
    /\ last.op = "complete-registration"
    /\ last.status = 400
    /\ Len(IssuedFor(last.phone)) = 2
    /\ IssuedFor(last.phone)[1].verified
    /\ ~IssuedFor(last.phone)[2].verified
    /\ IssuedFor(last.phone)[1].code # IssuedFor(last.phone)[2].code

\* C26: complete-registration for a phone whose newest otp is verified is
\* not refused for the expiry of the otp: at every time it creates the user
\* (201), unless the insert fails on a username that is taken (500)
C26_ExpiryNotChecked ==
    [][(last'.op = "complete-registration" /\ LastIssuedVerified(last'.phone))
       => \A u \in Usernames, a \in BOOLEAN :
             CompleteRegistration(u, last'.phone, a)
             => IF \E i \in DOMAIN users : users[i].username = u
                THEN last'.status = 500 /\ users' = users
                ELSE /\ last'.status = 201
                     /\ Len(users') = Len(users) + 1
                     /\ users'[Len(users')].username = u
                     /\ users'[Len(users')].phone = last'.phone]_vars

\* an account was created after the expiry of the verified otp of its phone
C26_Witness ==
    /\ last.op = "complete-registration"
    /\ last.status = 201
    /\ LastIssuedVerified(last.phone)
    /\ now > LastIssued(last.phone).expiresAt

\* C27 as stated: no two user rows hold the same phone
C27_Original ==
    \A i, j \in DOMAIN users : users[i].phone = users[j].phone => i = j

\* C28 as stated: the seeded account is the only administrator
C28_Original ==
    \A i \in DOMAIN users : users[i].isAdmin => users[i].username = AdminName

\* the message is no open credit request of the user: it was approved or
\* rejected before, or it is no credit_request row of that user
NotOpenRequestOf(m, u) ==
    \/ messages[m].status \in {"approved", "rejected"}
    \/ messages[m].type # "credit_request"
    \/ messages[m].userId # u

\* C29 as stated: an approval that names a message already approved or
\* rejected, or not a credit_request of the user it names, changes no balance
\* and adds no system row
C29_Original ==
    [][(last'.op = "approve-credit-request" /\ last'.status = 200) =>
       \A m \in DOMAIN messages, u \in 1..2, c \in ApproveCredits :
          (ApproveCreditRequest(last'.uid, m, u, c) /\ NotOpenRequestOf(m, u))
          => /\ \A i \in DOMAIN users :
                   users'[i].messagesRemaining = users[i].messagesRemaining
             /\ Len(messages') = Len(messages)]_vars

\* the caller holds a session and the account of the session is switched off
DisabledCaller(s) == s \in sessions /\ s \in DOMAIN users /\ ~users[s].isActive

\* C24: a send-message or bomber request on the session of an account that
\* is switched off is refused (403, or 400 on the bomber route when repeat is
\* above the balance) with no gateway call, no change of the ledger and no
\* message row
C24_InactiveRefused ==
    [][/\ (last'.op = "send-message" /\ DisabledCaller(last'.uid))
          => \A gw \in GwReturns :
                SendMessage(last'.uid, last'.phone, gw)
                => (last'.status = 403 /\ NotServed)
       /\ (last'.op = "bomber" /\ DisabledCaller(last'.uid))
          => \A n \in {1, MaxRepeat}, gw \in GwReturns :
                Bomber(last'.uid, last'.phone, n, gw)
                => (last'.status \in {400, 403} /\ NotServed)]_vars

\* a user with credits, switched off after the login, was refused a single
\* send on the session still held
C24_Witness ==
    /\ last.op = "send-message"
    /\ last.status = 403
    /\ DisabledCaller(last.uid)
    /\ users[last.uid].messagesRemaining > 0

\* a request that is turned away: no success, no gateway call, no change
Rejected ==
    /\ last'.status # 200
    /\ last'.calls = 0
    /\ users' = users
    /\ messages' = messages
    /\ protectedNumbers' = protectedNumbers
    /\ tlsEnv' = tlsEnv

Held(id) == Floor0(InitialCredits - SumOf(ledger, id, "remove"))

\* the single sends of the user whose gateway call succeeded
Sends(id) == SumOf(ledger, id, "sent")

\* the requests of the user in the order of the history
EventsOf(id) == SelectSeq(ledger, LAMBDA e : e.id = id /\ e.kind # "remove")

\* every request of the user began when the one before it was answered
NeverOverlapped(id) ==
    \A k \in DOMAIN EventsOf(id) :
        EventsOf(id)[k].kind = "begin"
        => (k = 1 \/ EventsOf(id)[k - 1].kind = "end")

\* C21 as stated: when the k single sends of a user are all answered,
\* overlapping or not, messagesSent is k and messagesRemaining is
\* max(0, initial - k)
C21_Original ==
    Busy = {} =>
       \A i \in UserIds :
          /\ users[i].messagesSent = Sends(i)
          /\ users[i].messagesRemaining = Floor0(Held(i) - Sends(i))

\* C22: as long as the requests of a user do not overlap, the successful
\* single sends of the user do not exceed the credits the user held
C22_SequentialSendsWithinCredits ==
    \A i \in UserIds : NeverOverlapped(i) => Sends(i) <= Held(i)

\* the race: a user holding exactly 1 credit has two requests in flight that
\* both passed the check of messagesRemaining and both had a successful
\* gateway call, so the sends exceed the credits held
C22_Witness ==
    \E i \in UserIds :
        /\ Held(i) = 1
        /\ users[i].messagesRemaining = 1
        /\ Cardinality({r \in BusyOf(i) : inflight[r].pc = "debit-read"}) = 2
        /\ Sends(i) = 2
        /\ ~NeverOverlapped(i)

\* the step issues a gateway call of the bomber request in slot r: the
\* sendBomberMessage after the test of the number, the first sendCustomMessage
\* of the admin loop, or a later iteration of the loop
IssuesBomberCall(r) ==
    \/ inflight[r].pc = "protected" /\ inflight'[r].pc = "gateway"
    \/ inflight'[r].pc = "loop" /\ inflight'[r] # inflight[r]

====
